---- MODULE Spec2Model ----
(***************************************************************************)
(* ElectroVault inventory manager (src/app.py): the session inventory, the *)
(* persisted JSON file, the st.cache_data cache of load_data, and the      *)
(* operations that read and write them.                                    *)
(*                                                                         *)
(* A price is an integer number of cents.                                  *)
(***************************************************************************)
EXTENDS Integers, Sequences, FiniteSets, TLC

VARIABLES
    session_state,  \* st.session_state: has the 'inventory' key or not, its list, show_modal
    file,           \* DATA_PATH: whether it exists, and the JSON document it holds
    cache,          \* the st.cache_data entry of load_data()
    last,           \* the most recent operation: its inputs, its result, what it displayed
    lastSave,       \* history: the operation that last called save_data, and its argument
    adds,           \* history: how many items add_item_form has added so far
    deletedIds,     \* history, kept by SpecIds: the ids delete_item removed in this session
    page            \* kept by SpecUI: the view shown, whether CONFIRM PURGE is on it, the last click

vars == <<session_state, file, cache, last, lastSave, adds, deletedIds, page>>

----------------------------------------------------------------------------
(* Bounds of the model *)

\* a run adds at most MaxAdds items
MaxAdds == 2

(* Program constants *)
MinPrice == 1   \* number_input(min_value=0.01), in cents
MinQty == 1     \* number_input(min_value=1)
TopN == 5       \* .head(5)

----------------------------------------------------------------------------
(* Text *)

CATEGORY_ICONS == <<"GPU", "CPU", "Mobile", "Laptop", "Accessory", "Other">>

\* the characters of the strings the model uses ("" has none)
Chars(s) ==
    CASE s = "GeForce RTX 4090" -> <<"G", "e", "F", "o", "r", "c", "e", " ", "R", "T", "X", " ", "4", "0", "9", "0">>
      [] s = "MacBook Pro M2" -> <<"M", "a", "c", "B", "o", "o", "k", " ", "P", "r", "o", " ", "M", "2">>
      [] s = "Samsung S24 Ultra" -> <<"S", "a", "m", "s", "u", "n", "g", " ", "S", "2", "4", " ", "U", "l", "t", "r", "a">>
      [] s = "Sony WH-1000XM5" -> <<"S", "o", "n", "y", " ", "W", "H", "-", "1", "0", "0", "0", "X", "M", "5">>
      [] s = "Ryzen 9" -> <<"R", "y", "z", "e", "n", " ", "9">>
      [] s = "GPU" -> <<"G", "P", "U">>
      [] s = "CPU" -> <<"C", "P", "U">>
      [] s = "Mobile" -> <<"M", "o", "b", "i", "l", "e">>
      [] s = "Laptop" -> <<"L", "a", "p", "t", "o", "p">>
      [] s = "Accessory" -> <<"A", "c", "c", "e", "s", "s", "o", "r", "y">>
      [] s = "Other" -> <<"O", "t", "h", "e", "r">>
      [] s = "gpu" -> <<"g", "p", "u">>
      [] s = "RT" -> <<"R", "T">>
      [] s = "ry" -> <<"r", "y">>
      [] OTHER -> <<>>

UpperToLower ==
    [A |-> "a", B |-> "b", C |-> "c", D |-> "d", E |-> "e", F |-> "f", G |-> "g",
     H |-> "h", I |-> "i", J |-> "j", K |-> "k", L |-> "l", M |-> "m", N |-> "n",
     O |-> "o", P |-> "p", Q |-> "q", R |-> "r", S |-> "s", T |-> "t", U |-> "u",
     V |-> "v", W |-> "w", X |-> "x", Y |-> "y", Z |-> "z"]

\* str.lower(), on the characters
Lower(cs) == [i \in 1..Len(cs) |-> IF cs[i] \in DOMAIN UpperToLower THEN UpperToLower[cs[i]] ELSE cs[i]]

\* term in text, on the characters
Contains(term, text) ==
    \E i \in 0..(Len(text) - Len(term)) : SubSeq(text, i + 1, i + Len(term)) = term

----------------------------------------------------------------------------
(* Data *)

Item(id, name, category, price, qty) ==
    [id |-> id, name |-> name, category |-> category, price |-> price, qty |-> qty]

DEFAULT_INVENTORY ==
    << Item(1, "GeForce RTX 4090", "GPU", 159999, 3),
       Item(2, "MacBook Pro M2", "Laptop", 249900, 8),
       Item(3, "Samsung S24 Ultra", "Mobile", 119950, 12),
       Item(4, "Sony WH-1000XM5", "Accessory", 34800, 25) >>

\* json.dump of one dict: the values in key order
EncodeItem(item) == <<item.id, item.name, item.category, item.price, item.qty>>

\* json.load of one object
DecodeItem(obj) == Item(obj[1], obj[2], obj[3], obj[4], obj[5])

\* json.dump(data, f, indent=4) / json.dumps(data, indent=4)
Encode(data) == [i \in 1..Len(data) |-> EncodeItem(data[i])]

\* json.load(f)
Decode(doc) == [i \in 1..Len(doc) |-> DecodeItem(doc[i])]

Ids(inv) == {inv[i].id : i \in 1..Len(inv)}

Max(S) == CHOOSE m \in S : \A x \in S : x <= m

----------------------------------------------------------------------------
(* Inputs *)

\* the ids a run can hold: those of DEFAULT_INVENTORY and InitialFiles, and the added
ItemIds == 1..(5 + MaxAdds)

\* what a user can type into text_input("Item Name")
NameInputs == {"", "Ryzen 9"}

\* the selectbox's options are the keys of CATEGORY_ICONS
CategoryInputs == {CATEGORY_ICONS[2]}

\* number_input refuses a value below its min_value
PriceInputs == {p \in {-100, 0, 34800, 129900} : p >= MinPrice}
QtyInputs == {q \in {0, 2} : q >= MinQty}

SearchTerms == {"", "gpu", "RT", "ry"}

\* files a previous run of the program can have left behind (ids unique)
InitialFiles ==
    { Encode(<<>>),
      Encode(<<Item(5, "Ryzen 9", "CPU", 34800, 2), Item(2, "Ryzen 9", "Other", 129900, 2)>>) }

----------------------------------------------------------------------------
(* State *)

NoFile == [exists |-> FALSE, content |-> <<>>]
CacheEmpty == [loaded |-> FALSE, value |-> <<>>]
NoSession == [init |-> FALSE, inventory |-> <<>>, show_modal |-> FALSE]

Op(op, id, name, category, price, qty, err, out, doc) ==
    [op |-> op, id |-> id, name |-> name, category |-> category, price |-> price,
     qty |-> qty, err |-> err, out |-> out, doc |-> doc]

\* an operation without form inputs
Did(op, id, out, doc) == Op(op, id, "", "", 0, 0, FALSE, out, doc)

inventory == session_state.inventory

\* what a script run leaves in the browser: st.session_state['current_view'], whether
\* the run rendered the CONFIRM PURGE button, and the widget whose click started the run
Page(current_view, confirm, clicked) ==
    [current_view |-> current_view, confirm |-> confirm, clicked |-> clicked]

\* a session's first run shows the Inventory view
HomePage == Page("Inventory", FALSE, "none")

Init ==
    /\ session_state = NoSession
    /\ file \in {NoFile} \cup {[exists |-> TRUE, content |-> c] : c \in InitialFiles}
    /\ cache = CacheEmpty
    /\ last = Did("start", 0, <<>>, <<>>)
    /\ lastSave = [by |-> "none", data |-> <<>>]
    /\ adds = 0
    /\ deletedIds = {}
    /\ page = HomePage

----------------------------------------------------------------------------
(* load_data and save_data *)

\* (mutant) an empty list read from the file is taken for no data: data or DEFAULT_INVENTORY
ReadDataOrDefault ==
    IF file.exists /\ file.content # <<>> THEN Decode(file.content) ELSE DEFAULT_INVENTORY

\* the body of load_data, run on a cache miss
ReadData == IF file.exists THEN Decode(file.content) ELSE DEFAULT_INVENTORY

\* load_data(): st.cache_data returns the cached value when there is one
LoadResult == IF cache.loaded THEN cache.value ELSE ReadData

CacheAfterLoad == [loaded |-> TRUE, value |-> LoadResult]

\* (mutant) load_data writes the defaults when the file is absent
FileSeededByLoad ==
    IF file.exists THEN file ELSE [exists |-> TRUE, content |-> Encode(DEFAULT_INVENTORY)]

\* load_data leaves DATA_PATH as it is
FileAfterLoad == file

\* (mutant) nothing is written for an empty list: if data: json.dump(...)
FileAfterSaveIfAny(data) ==
    IF data = <<>> THEN file ELSE [exists |-> TRUE, content |-> Encode(data)]

\* open(DATA_PATH, 'w'); json.dump(data, f, indent=4)
FileAfterSave(data) == [exists |-> TRUE, content |-> Encode(data)]

\* (mutant) save_data without load_data.clear()
CacheKeptBySave == cache

\* load_data.clear()
CacheAfterSave == CacheEmpty

save_data(by, data) ==
    /\ file' = FileAfterSave(data)
    /\ cache' = CacheAfterSave
    /\ lastSave' = [by |-> by, data |-> data]

load_data ==
    /\ cache' = CacheAfterLoad
    /\ file' = FileAfterLoad
    /\ last' = Did("load", 0, LoadResult, <<>>)
    /\ UNCHANGED <<session_state, lastSave, adds, deletedIds>>

----------------------------------------------------------------------------
(* Session *)

initialize_session_state ==
    /\ ~session_state.init
    /\ session_state' = [init |-> TRUE, inventory |-> LoadResult, show_modal |-> FALSE]
    /\ cache' = CacheAfterLoad
    /\ file' = FileAfterLoad
    /\ last' = Did("init", 0, LoadResult, <<>>)
    /\ UNCHANGED <<lastSave, adds, deletedIds>>

\* the browser page is reloaded: Streamlit starts a new session with an empty
\* session_state; the file and the process-wide cache stay
NewSession ==
    /\ session_state.init
    /\ session_state' = NoSession
    /\ last' = Did("start", 0, <<>>, <<>>)
    /\ UNCHANGED <<file, cache, lastSave, adds>>

----------------------------------------------------------------------------
(* Adding an item *)

\* render_inventory_view: the ADD ITEM button
AddItemButton ==
    /\ session_state.init
    /\ ~session_state.show_modal
    /\ session_state' = [session_state EXCEPT !.show_modal = TRUE]
    /\ last' = Did("open", 0, <<>>, <<>>)
    /\ UNCHANGED <<file, cache, lastSave, adds, deletedIds>>

\* (mutant) the name is not looked at: if price and qty
ValidNumbers(name, price, qty) == price # 0 /\ qty # 0

\* if name and price and qty
Valid(name, price, qty) == name # "" /\ price # 0 /\ qty # 0

\* (mutant) the id is the new length: len(inventory) + 1
NewIdByCount(inv) == Len(inv) + 1

\* (mutant) the id follows the first item's: inventory[0]['id'] + 1
NewIdAfterFirst(inv) == IF inv # <<>> THEN inv[1].id + 1 ELSE 1

\* max([item['id'] for item in inventory]) + 1 if inventory else 1
NewId(inv) == IF inv # <<>> THEN Max(Ids(inv)) + 1 ELSE 1

\* (mutant) inventory.append(new_item)
Appended(inv, item) == inv \o <<item>>

\* inventory.insert(0, new_item)
Inserted(inv, item) == <<item>> \o inv

\* the form is submitted with valid inputs
AddAccepted(name, category, price, qty) ==
    LET new_id == NewId(inventory)
        new_item == Item(new_id, name, category, price, qty)
        data == Inserted(inventory, new_item)
    IN  /\ Valid(name, price, qty)
        /\ adds < MaxAdds
        /\ adds' = adds + 1
        /\ session_state' = [session_state EXCEPT !.inventory = data, !.show_modal = FALSE]
        /\ save_data("add", data)
        /\ last' = Op("add", new_id, name, category, price, qty, FALSE, <<>>, <<>>)
        /\ UNCHANGED deletedIds

\* the form is submitted with an input that is not truthy: st.error
AddRejected(name, category, price, qty) ==
    /\ ~Valid(name, price, qty)
    /\ last' = Op("add", 0, name, category, price, qty, TRUE, <<>>, <<>>)
    /\ UNCHANGED <<session_state, file, cache, lastSave, adds, deletedIds>>

add_item_form ==
    /\ session_state.init
    /\ session_state.show_modal
    /\ \E name \in NameInputs, category \in CategoryInputs,
          price \in PriceInputs, qty \in QtyInputs :
            \/ AddAccepted(name, category, price, qty)
            \/ AddRejected(name, category, price, qty)

----------------------------------------------------------------------------
(* Deleting and clearing *)

\* (mutant) the item at position item_id is removed: del inventory[item_id - 1]
RemainingByPosition(inv, item_id) ==
    IF item_id \in DOMAIN inv
    THEN SubSeq(inv, 1, item_id - 1) \o SubSeq(inv, item_id + 1, Len(inv))
    ELSE inv

\* [item for item in inventory if item['id'] != item_id]
Remaining(inv, item_id) == SelectSeq(inv, LAMBDA item : item.id # item_id)

delete_item(item_id) ==
    LET data == Remaining(inventory, item_id)
    IN  /\ session_state.init
        /\ session_state' = [session_state EXCEPT !.inventory = data]
        /\ file' = FileAfterSave(data)
        /\ lastSave' = [by |-> "delete", data |-> data]
        /\ cache' = CacheEmpty      \* save_data's clear, then load_data.clear() again
        /\ UNCHANGED adds
        /\ last' = Did("delete", item_id, <<>>, <<>>)

clear_data ==
    /\ session_state.init
    /\ session_state' = [session_state EXCEPT !.inventory = <<>>]
    /\ save_data("clear", <<>>)
    /\ last' = Did("clear", 0, <<>>, <<>>)
    /\ UNCHANGED <<adds, deletedIds>>

----------------------------------------------------------------------------
(* Views *)

\* term in item['name'].lower() or term in item['category'].lower()
Matches(term, item) ==
    \/ Contains(term, Lower(Chars(item.name)))
    \/ Contains(term, Lower(Chars(item.category)))

\* render_inventory_view: the filtering logic
Filtered(inv, search_term) ==
    IF search_term # ""
    THEN LET term == Lower(Chars(search_term))
         IN  SelectSeq(inv, LAMBDA item : Matches(term, item))
    ELSE inv

render_inventory_view ==
    /\ session_state.init
    /\ \E search_term \in SearchTerms :
          last' = Op("search", 0, search_term, "", 0, 0, FALSE,
                     Filtered(inventory, search_term), <<>>)
    /\ UNCHANGED <<session_state, file, cache, lastSave, adds, deletedIds>>

\* (mutant) ascending=False is left out: the lowest price first
Cheapest(inv, S) == {i \in S : \A j \in S : inv[i].price <= inv[j].price}

\* the positions of the highest price among the positions S of inv
Dearest(inv, S) == {i \in S : \A j \in S : inv[j].price <= inv[i].price}

\* df.sort_values(by='price', ascending=False): the orders pandas' default sort
\* (quicksort, not stable) can give; rows of equal price come in any order
RECURSIVE Sorted(_, _)
Sorted(inv, S) ==
    IF S = {} THEN {<<>>}
    ELSE UNION { { <<inv[i]>> \o rest : rest \in Sorted(inv, S \ {i}) } : i \in Dearest(inv, S) }

\* .head(n)
FirstRows(seq, n) == SubSeq(seq, 1, IF Len(seq) < n THEN Len(seq) ELSE n)

\* the 'Most Expensive Assets' lists the view can show
TopExpensive(inv) == { FirstRows(sorted_items, TopN) : sorted_items \in Sorted(inv, DOMAIN inv) }

render_analytics_view ==
    /\ session_state.init
    /\ \/ /\ inventory = <<>>           \* st.info(...); return
          /\ last' = Did("analytics", 0, <<>>, <<>>)
       \/ /\ inventory # <<>>
          /\ \E top \in TopExpensive(inventory) : last' = Did("analytics", 0, top, <<>>)
    /\ UNCHANGED <<session_state, file, cache, lastSave, adds, deletedIds>>

export_data ==
    /\ session_state.init
    /\ last' = Did("export", 0, <<>>, Encode(inventory))
    /\ UNCHANGED <<session_state, file, cache, lastSave, adds, deletedIds>>

----------------------------------------------------------------------------
\* the history of removed ids: kept (SpecIds) or not (Spec)
RecordDeleted(item_id) == deletedIds' = deletedIds \cup ({item_id} \cap Ids(inventory))

Next ==
    \/ load_data /\ UNCHANGED page
    \/ initialize_session_state /\ UNCHANGED page
    \/ NewSession /\ UNCHANGED <<deletedIds, page>>
    \/ AddItemButton /\ UNCHANGED page
    \/ add_item_form /\ UNCHANGED page
    \/ \E item_id \in ItemIds : delete_item(item_id) /\ UNCHANGED <<deletedIds, page>>
    \/ clear_data /\ UNCHANGED page
    \/ render_inventory_view /\ UNCHANGED page
    \/ render_analytics_view /\ UNCHANGED page
    \/ export_data /\ UNCHANGED page

Spec == Init /\ [][Next]_vars

\* the operations that change the inventory, with the history of removed ids
NextIds ==
    \/ initialize_session_state /\ UNCHANGED page
    \/ NewSession /\ deletedIds' = {} /\ UNCHANGED page
    \/ AddItemButton /\ UNCHANGED page
    \/ add_item_form /\ UNCHANGED page
    \/ \E item_id \in ItemIds : delete_item(item_id) /\ RecordDeleted(item_id) /\ UNCHANGED page
    \/ clear_data /\ UNCHANGED page

SpecIds == Init /\ [][NextIds]_vars

----------------------------------------------------------------------------
(* Script runs: each click or selection starts one run of main(), in which      *)
(* st.button returns True only for the button that was clicked                   *)

view_options == {"Inventory", "Analytics", "Settings"}

\* st.button(..., key=key) in a run started by a click on `clicked`
Button(key, clicked) == clicked = key

\* st.warning(...) returns its element container, which is truthy
WarningShown == TRUE

\* the first run of a session: initialize_session_state, then the Inventory view
FirstRun ==
    /\ initialize_session_state
    /\ page' = HomePage

\* the browser page is reloaded
Reload ==
    /\ NewSession
    /\ page' = HomePage
    /\ UNCHANGED deletedIds

\* st.radio("Navigation"): the run renders the chosen view, no button pressed
Navigate(view) ==
    /\ session_state.init
    /\ page' = Page(view, FALSE, "radio")
    /\ last' = Did("navigate", 0, <<>>, <<>>)
    /\ UNCHANGED <<session_state, file, cache, lastSave, adds, deletedIds>>

\* render_inventory_view: the DELETE button of a displayed item; delete_item, st.rerun()
ClickDelete(item_id) ==
    /\ page.current_view = "Inventory"
    /\ item_id \in Ids(inventory)
    /\ delete_item(item_id)
    /\ page' = Page("Inventory", FALSE, "delete")
    /\ UNCHANGED deletedIds

\* a run of render_settings_view started by a click on one of its buttons
render_settings_view(clicked) ==
    LET btn_export == Button("btn_export", clicked)
        btn_purge == Button("btn_purge", clicked)
        \* CONFIRM PURGE is created only inside: if btn_purge: if st.warning(...):
        confirm_rendered == btn_purge /\ WarningShown
        confirm_purge == confirm_rendered /\ Button("confirm_purge", clicked)
    IN  /\ session_state.init
        /\ page.current_view = "Settings"
        /\ clicked = "confirm_purge" => page.confirm    \* only a button on the page is clicked
        /\ IF confirm_purge
           THEN /\ clear_data                \* then st.success, st.rerun()
                /\ page' = Page("Settings", FALSE, clicked)
           ELSE /\ page' = Page("Settings", confirm_rendered, clicked)
                /\ IF btn_export
                   THEN export_data
                   ELSE /\ last' = Did("settings", 0, <<>>, <<>>)
                        /\ UNCHANGED <<session_state, file, cache, lastSave, adds, deletedIds>>

NextUI ==
    \/ FirstRun
    \/ Reload
    \/ \E view \in view_options : Navigate(view)
    \/ \E item_id \in ItemIds : ClickDelete(item_id)
    \/ \E clicked \in {"btn_export", "btn_purge", "confirm_purge"} : render_settings_view(clicked)

SpecUI == Init /\ [][NextUI]_vars

----------------------------------------------------------------------------
(* Properties *)

\* the step is a call of load_data (directly or by initialize_session_state)
Loaded == last.op \in {"load", "init"}

\* the step added an item
Added == last.op = "add" /\ ~last.err

\* the item the last add_item_form built from its inputs
AddedItem == Item(last.id, last.name, last.category, last.price, last.qty)

\* the position of an item in the session inventory
Pos(item) == CHOOSE i \in DOMAIN inventory : inventory[i].id = item.id

\* C1: in every state reached from the initial load by adds, deletes and clears,
\* no two items of the session inventory have the same id.
C1_UniqueIds ==
    \A i, j \in DOMAIN inventory : i # j => inventory[i].id # inventory[j].id

\* an id freed by delete_item was assigned again, next to three other items
C1_Witness ==
    Added /\ last.id = 4 /\ Len(inventory) = 4 /\ C1_UniqueIds

\* C2: an add submitted with a non-empty name, a price > 0 and a qty >= 1 is accepted
\* and gives <new item> followed by the previous items in their order, the new item
\* carrying the inputs and the id max(ids)+1, or 1 for an empty inventory.
C2_AddPrepends ==
    [][ (last'.op = "add" /\ last'.name # "" /\ last'.price > 0 /\ last'.qty >= 1)
        => /\ ~last'.err
           /\ inventory' = <<AddedItem'>> \o inventory
           /\ Len(inventory') = Len(inventory) + 1
           /\ last'.id = (IF inventory = <<>> THEN 1 ELSE Max(Ids(inventory)) + 1) ]_vars

\* an item was added to the empty inventory (id 1) and another one before it (id 2)
C2_Witness ==
    Added /\ Len(inventory) = 2 /\ inventory[1].id = 2 /\ inventory[2].id = 1 /\ adds = 2

C4_DeleteFiltersById ==
    [][ last'.op = "delete"
        => LET gone(i) == Cardinality({j \in 1..i : inventory[j].id = last'.id})
           IN  /\ Len(inventory') = Len(inventory) - gone(Len(inventory))
               /\ \A i \in DOMAIN inventory :
                     inventory[i].id # last'.id => inventory'[i - gone(i)] = inventory[i]
               /\ last'.id \notin Ids(inventory) => inventory' = inventory
               /\ ~last'.err ]_vars

\* delete_item(5) on the four default items, none of which has id 5
C4_Witness ==
    last.op = "delete" /\ last.id = 5 /\ adds = 0 /\ inventory = DEFAULT_INVENTORY

\* C5: once clear_data has written the file, load_data returns the empty inventory
\* and not the defaults; the defaults are returned only while no file exists.
C5_ClearThenLoad ==
    Loaded => /\ lastSave.by = "clear" => last.out = <<>>
              /\ last.out = DEFAULT_INVENTORY
                    => \/ ~file.exists /\ lastSave.by = "none"
                       \/ file.exists /\ Decode(file.content) = DEFAULT_INVENTORY

\* a new session is initialised after clear_data and gets the empty inventory
C5_Witness ==
    last.op = "init" /\ lastSave.by = "clear" /\ last.out = <<>> /\ inventory = <<>>

\* C6: after save_data(X), load_data returns X; the cache never holds anything but
\* what the file (or, without a file, the defaults) gives.
C6_ReadAfterWrite ==
    /\ (Loaded /\ lastSave.by # "none") => last.out = lastSave.data
    /\ cache.loaded
          => cache.value = (IF file.exists THEN Decode(file.content) ELSE DEFAULT_INVENTORY)

\* the defaults were loaded and cached, an item was added and saved, and a load
\* returned the five items
C6_Witness ==
    /\ last.op = "load" /\ lastSave.by = "add" /\ adds = 1
    /\ Len(last.out) = 5 /\ last.out = lastSave.data

\* C7: between operations, once the file exists it holds the session inventory, and
\* after an add, a delete or a clear the file exists.
C7_FileIsInventory ==
    /\ (session_state.init /\ file.exists) => file.content = Encode(inventory)
    /\ (Added \/ last.op \in {"delete", "clear"}) => file.exists

\* the file was written by clear_data and holds the empty inventory
C7_Witness ==
    last.op = "clear" /\ file.exists /\ file.content = <<>> /\ adds > 0

\* C8: an add submitted with an empty name, a price not > 0 or a qty not >= 1 is
\* rejected, and the inventory, the file and the cache are as before.
C8_RejectedAddChangesNothing ==
    [][ (last'.op = "add" /\ ~(last'.name # "" /\ last'.price > 0 /\ last'.qty >= 1))
        => /\ last'.err
           /\ UNCHANGED <<session_state, file, cache>> ]_vars

\* an add with an empty name was rejected while a file and a cached load existed
C8_Witness ==
    last.op = "add" /\ last.err /\ last.name = "" /\ file.exists /\ inventory # <<>>

\* C9: while the file is absent the session works on the four defaults; loads,
\* session starts, searches, analytics and exports never write the file, which is
\* first written by an add, a delete or a clear.
C9_NoWriteBeforeMutation ==
    /\ []((session_state.init /\ ~file.exists) => inventory = DEFAULT_INVENTORY)
    /\ [][ /\ (~file.exists /\ file'.exists)
                 => (last'.op \in {"delete", "clear"} \/ (last'.op = "add" /\ ~last'.err))
           /\ last'.op \in {"load", "init", "start", "open", "search", "analytics", "export"}
                 => file' = file ]_vars

\* the analytics view was rendered on the defaults with the file still absent
C9_Witness ==
    last.op = "analytics" /\ ~file.exists /\ inventory = DEFAULT_INVENTORY /\ Len(last.out) = 4

\* the list has min(TopN, len) rows, all of them items of the inventory, no item twice
TopRows(top) ==
    /\ Len(top) = (IF Len(inventory) < TopN THEN Len(inventory) ELSE TopN)
    /\ \A k \in DOMAIN top : \E i \in DOMAIN inventory : inventory[i] = top[k]
    /\ \A k, l \in DOMAIN top : k # l => top[k].id # top[l].id

\* C10 as claimed: the list is the first min(5, len) items by price descending, and
\* of two items of equal price the one inserted earlier (add prepends: the one
\* further back in the inventory) comes first.
C10_TopFiveEarliestFirst ==
    last.op = "analytics"
    => LET top == last.out
           before(a, b) == a.price > b.price \/ (a.price = b.price /\ Pos(a) > Pos(b))
       IN  /\ TopRows(top)
           /\ \A k, l \in DOMAIN top : k < l => before(top[k], top[l])
           /\ \A i \in DOMAIN inventory :
                 (\A k \in DOMAIN top : top[k].id # inventory[i].id)
                    => \A k \in DOMAIN top : before(top[k], inventory[i])

\* C10 as amended: the list is the first min(5, len) items by price descending; the
\* order of items of equal price is not fixed.
C10_TopFiveByPrice ==
    last.op = "analytics"
    => LET top == last.out
       IN  /\ TopRows(top)
           /\ \A k, l \in DOMAIN top : k < l => top[k].price >= top[l].price
           /\ \A i \in DOMAIN inventory :
                 (\A k \in DOMAIN top : top[k].id # inventory[i].id)
                    => \A k \in DOMAIN top : top[k].price >= inventory[i].price

\* six items, five listed, two of equal price next to each other in the list
C10_Witness ==
    /\ last.op = "analytics" /\ Len(inventory) = 6 /\ Len(last.out) = 5
    /\ \E k \in 1..4 : last.out[k].price = last.out[k + 1].price

\* C11: in the Settings view, a click on PURGE ALL followed by a click on CONFIRM
\* PURGE runs clear_data: after the run the CONFIRM PURGE click starts, the session
\* inventory is empty and the empty list is in the file.
C11_PurgeByTwoClicks ==
    page.clicked = "confirm_purge"
    => /\ inventory = <<>>
       /\ file = [exists |-> TRUE, content |-> Encode(<<>>)]
       /\ lastSave.by = "clear"

====
